---- MODULE Spec2Model ----
(***************************************************************************)
(* The Firecrawl gateway layer of quillscroll: the firecrawl-search edge   *)
(* function (authentication, ledger-derived rate limiter, upstream proxy,  *)
(* usage log), the cleanup-firecrawl-logs edge function (retention         *)
(* sweeper) and the AdminFirecrawlDashboard page (admin analytics), all    *)
(* working on the firecrawl_usage_logs and user_roles tables.              *)
(*                                                                         *)
(* Time is counted in whole seconds.  Every await of a handler is a step   *)
(* boundary: other handlers, the clock and the operators' role changes     *)
(* may act between two steps of one invocation.                            *)
(***************************************************************************)
EXTENDS Integers, Sequences, FiniteSets, Bags, TLC

VARIABLES
    now,      \* the clock, in seconds (Date.now() and the database's now())
    ledger,   \* table firecrawl_usage_logs: the rows, in insertion order
    nextId,   \* the next row id the table hands out
    roles,    \* table user_roles: a set of <<user_id, role>>
    gw,       \* firecrawl-search: one invocation record per concurrent slot
    sw,       \* cleanup-firecrawl-logs: the invocation record
    dash,     \* AdminFirecrawlDashboard: the component's state
    hist      \* bookkeeping: what has happened so far (never read by the code)

vars == <<now, ledger, nextId, roles, gw, sw, dash, hist>>

----------------------------------------------------------------------------
(* Program constants *)

RATE_LIMIT_MAX_REQUESTS == 20
RATE_LIMIT_WINDOW_SECONDS == 60
RetentionSeconds == 30 * 24 * 60 * 60
QueryLimit == 100

(* Bounds of the model *)

MaxCalls == 2      \* firecrawl-search invocations started in one behaviour
MaxTicks == 2      \* clock advances in one behaviour
MaxSweeps == 2     \* cleanup invocations started in one behaviour

----------------------------------------------------------------------------
(* Values *)

NullInt == -1           \* SQL NULL / undefined / an absent header, for numbers
NullText == "<null>"    \* SQL NULL / undefined, for text
NoUser == "<nobody>"    \* no authenticated user

Users == {"u1", "u2"}
Slots == {1, 2}           \* concurrent firecrawl-search invocations

(* The Authorization header: absent, or <<scheme prefix, credential>>. *)
NoHeader == <<>>
Headers == {NoHeader, <<"Basic ", "dXNlcg">>, <<"Bearer ", "bad">>,
            <<"Bearer ", "t1">>, <<"Bearer ", "t2">>}

(* authHeader?.startsWith('Bearer ') *)
StartsWithBearer(h) == h # NoHeader /\ h[1] = "Bearer "

(* authHeader.replace('Bearer ', '') *)
TokenOf(h) ==
    IF h = NoHeader THEN NullText
    ELSE IF h[1] = "Bearer " THEN h[2] ELSE h[1] \o h[2]

(* supabase.auth.getUser(token): the platform backend resolves the token  *)
(* to a user, or answers with an error (unknown token, backend failure).  *)
TokenUser(tok) == IF tok = "t1" THEN "u1" ELSE IF tok = "t2" THEN "u2" ELSE NoUser
GetUser(tok) ==
    {[error |-> TRUE, user |-> NoUser]} \cup
    (IF TokenUser(tok) # NoUser THEN {[error |-> FALSE, user |-> TokenUser(tok)]} ELSE {})

(* A faulty variant: every getUser result is let through. *)
AuthFailedUnchecked(res) == FALSE

(* claimsError || !claimsData?.user *)
AuthFailed(res) == res.error \/ res.user = NoUser

(* The request body: req.json() throws on a body that is not JSON. *)
Bodies == {[json |-> TRUE, query |-> "quill"], [json |-> TRUE, query |-> ""],
           [json |-> TRUE, query |-> NullText], [json |-> FALSE, query |-> NullText]}
NoBody == [json |-> FALSE, query |-> NullText]

(* A faulty variant: only an absent query is missing, "" is accepted. *)
QueryMissingOnlyUndefined(q) == q = NullText

(* !query *)
QueryMissing(q) == q = NullText \/ q = ""

(* Deno.env.get('FIRECRAWL_API_KEY'): the server-held upstream credential *)
ApiKey == "fc-key"

(* The texts that quote the credential. *)
ContainsKey(text) == text \in {"Unauthorized: Invalid token " \o ApiKey, ApiKey}

(* What the upstream fetch can do: answer with an HTTP status and a JSON  *)
(* body (error: the body's error field, if it has one), answer with a     *)
(* body that is not JSON, or fail in transport.                           *)
UpstreamResults ==
    {[kind |-> "http", status |-> 200, error |-> NullText],
     [kind |-> "http", status |-> 500, error |-> NullText],
     [kind |-> "badjson", status |-> 200, error |-> NullText],
     [kind |-> "throw", status |-> NullInt, error |-> NullText]}

(* More of what the provider can answer: another 2xx status, an error    *)
(* whose text quotes the token the request carried, and a rate limit of   *)
(* its own.                                                               *)
ProviderAnswers ==
    UpstreamResults \cup
    {[kind |-> "http", status |-> 201, error |-> NullText],
     [kind |-> "http", status |-> 401, error |-> "Unauthorized: Invalid token " \o ApiKey],
     [kind |-> "http", status |-> 429, error |-> "Rate limit exceeded"]}

(* What is thrown into the handler's catch: by req.json() and by          *)
(* response.json() a SyntaxError, by fetch a TypeError.                   *)
SyntaxError == [isError |-> TRUE, message |-> "Unexpected token in JSON"]
Thrown(r) ==
    IF r.kind = "throw" THEN [isError |-> TRUE, message |-> "error sending request"]
    ELSE SyntaxError

(* error instanceof Error ? error.message : 'Failed to search' *)
ErrorMessage(error) == IF error.isError THEN error.message ELSE "Failed to search"

(* response.ok *)
IsOk(status) == status >= 200 /\ status <= 299

----------------------------------------------------------------------------
(* Table firecrawl_usage_logs *)

(* INSERT: id and created_at come from the table's defaults. *)
InsertRow(payload, id, t) ==
    [id |-> id, user_id |-> payload.user_id, function_name |-> payload.function_name,
     request_url |-> NullText, request_query |-> payload.request_query,
     status_code |-> payload.status_code, success |-> payload.success,
     error_message |-> payload.error_message, created_at |-> t]

(* A faulty variant: the rate-limited attempt is stored with the status  *)
(* it is answered with.                                                   *)
RejectionPayloadStatus(u) ==
    [user_id |-> u, function_name |-> "search", request_query |-> NullText,
     status_code |-> 429, success |-> FALSE, error_message |-> "Rate limit exceeded"]

(* The row of the rate-limited attempt. *)
RejectionPayload(u) ==
    [user_id |-> u, function_name |-> "search", request_query |-> NullText,
     status_code |-> NullInt, success |-> FALSE, error_message |-> "Rate limit exceeded"]

(* data.error || `Request failed with status ${response.status}` *)
UpstreamError(err, status) ==
    IF err # NullText /\ err # "" THEN err
    ELSE "Request failed with status " \o ToString(status)

(* The row of a forwarded call. *)
UsagePayload(u, q, status, err) ==
    [user_id |-> u, function_name |-> "search", request_query |-> q,
     status_code |-> status, success |-> IsOk(status),
     error_message |-> IF ~IsOk(status) THEN UpstreamError(err, status) ELSE NullText]

(* A faulty variant: a row exactly at the window's start is left out. *)
InWindowStrict(r, u, windowStart) == r.user_id = u /\ r.created_at > windowStart

(* A faulty variant: only the rows of the search function are counted. *)
InWindowSearch(r, u, windowStart) ==
    r.user_id = u /\ r.created_at >= windowStart /\ r.function_name = "search"

(* A faulty variant: the rows of rate-limited attempts are not counted. *)
InWindowForwarded(r, u, windowStart) ==
    r.user_id = u /\ r.created_at >= windowStart /\ r.status_code # NullInt

(* A faulty variant: every row of the user is counted, whatever its age. *)
InWindowAnyAge(r, u, windowStart) == r.user_id = u

(* select count where user_id = u and created_at >= windowStart *)
InWindow(r, u, windowStart) == r.user_id = u /\ r.created_at >= windowStart
(* A faulty variant: the handler also counts, in a counter of its own,  *)
(* the user's admitted calls that have not yet been logged.               *)
CountRowsAndInFlight(l, u, windowStart) ==
    Cardinality({i \in 1..Len(l) : InWindow(l[i], u, windowStart)})
    + Cardinality({t \in Slots : gw[t].user = u /\ gw[t].pc \in {"fetch", "logInsert"}})

(* the count the query returns *)
CountRows(l, u, windowStart) ==
    Cardinality({i \in 1..Len(l) : InWindow(l[i], u, windowStart)})

(* A faulty variant: a failed count read closes the gate. *)
CurrentCountFailClosed(count) ==
    IF count = NullInt THEN RATE_LIMIT_MAX_REQUESTS ELSE count

(* const currentCount = count || 0 *)
CurrentCount(count) == IF count = NullInt THEN 0 ELSE count

(* A faulty variant: the limit is exceeded only above the maximum. *)
LimitExceededStrict(c) == c > RATE_LIMIT_MAX_REQUESTS

(* currentCount >= RATE_LIMIT_MAX_REQUESTS *)
LimitExceeded(c) == c >= RATE_LIMIT_MAX_REQUESTS

----------------------------------------------------------------------------
(* firecrawl-search: responses *)

Response(status, body, retryAfter, limit, remaining) ==
    [status |-> status, body |-> body, retryAfter |-> retryAfter,
     limit |-> limit, remaining |-> remaining]
NoResp == Response(0, "", NullInt, NullInt, NullInt)

Resp401Missing == Response(401, "Authentication required", NullInt, NullInt, NullInt)
Resp401Invalid == Response(401, "Invalid authentication", NullInt, NullInt, NullInt)
Resp429 == Response(429, "Rate limit exceeded. Please wait before making more requests.",
                    RATE_LIMIT_WINDOW_SECONDS, RATE_LIMIT_MAX_REQUESTS, 0)
Resp400 == Response(400, "Query is required", NullInt, NullInt, NullInt)
Resp500NoKey == Response(500, "Firecrawl connector not configured", NullInt, NullInt, NullInt)
RespCatch(error) == Response(500, ErrorMessage(error), NullInt, NullInt, NullInt)
RespUpstreamError(status, err) ==
    Response(status, UpstreamError(err, status), NullInt, NullInt, NullInt)
RespData(currentCount) ==
    Response(200, "upstream data", NullInt, RATE_LIMIT_MAX_REQUESTS,
             RATE_LIMIT_MAX_REQUESTS - currentCount - 1)

(* One invocation of the handler: where it is, what it was given, what it *)
(* has read, and what it has done so far.                                 *)
IdleCall ==
    [pc |-> "idle", hdr |-> NoHeader, body |-> NoBody, user |-> NoUser,
     windowStart |-> 0, count |-> NullInt, up |-> NullInt, uperr |-> NullText,
     resp |-> NoResp,
     nread |-> 0, ins |-> <<>>, rows |-> {}, nup |-> 0,
     idx |-> 0, storeErr |-> FALSE, key |-> TRUE]

InFlight(c) == c.pc \notin {"idle", "done"}

Finish(c, resp) == [c EXCEPT !.pc = "done", !.resp = resp]

----------------------------------------------------------------------------
(* firecrawl-search: the handler, one action per await *)

(* The request arrives at the first free slot; the header is checked;     *)
(* getUser is awaited.                                                    *)
GwStart(s, h) ==
    /\ ~InFlight(gw[s])
    /\ \A t \in Slots : t < s => InFlight(gw[t])
    /\ hist.started < MaxCalls
    /\ LET c == [IdleCall EXCEPT !.hdr = h]
       IN  gw' = [gw EXCEPT ![s] =
                    IF ~StartsWithBearer(h) THEN Finish(c, Resp401Missing)
                    ELSE [c EXCEPT !.pc = "getUser"]]
    /\ hist' = [hist EXCEPT !.started = @ + 1,
                            !.overlap = @ \/ (\E t \in Slots \ {s} : InFlight(gw[t]))]
    /\ UNCHANGED <<now, ledger, nextId, roles, sw, dash>>

(* getUser answers; on success windowStart is taken from the clock and    *)
(* the count query is awaited.                                            *)
GwAuth(s, res) ==
    /\ gw[s].pc = "getUser"
    /\ res \in GetUser(TokenOf(gw[s].hdr))
    /\ IF AuthFailed(res)
       THEN /\ gw' = [gw EXCEPT ![s] = Finish(@, Resp401Invalid)]
            /\ hist' = hist
       ELSE /\ gw' = [gw EXCEPT ![s] =
                        [@ EXCEPT !.pc = "count", !.user = res.user,
                                  !.windowStart = now - RATE_LIMIT_WINDOW_SECONDS,
                                  !.idx = hist.issued[res.user] + 1]]
            /\ hist' = [hist EXCEPT !.issued[res.user] = @ + 1]
    /\ UNCHANGED <<now, ledger, nextId, roles, sw, dash>>

(* What follows an admitted count: req.json(), the query check, the API   *)
(* key, and the upstream request being sent.                              *)
Admitted(c, key) ==
    IF ~c.body.json THEN Finish(c, RespCatch(SyntaxError))
    ELSE IF QueryMissing(c.body.query) THEN Finish(c, Resp400)
    ELSE IF ~key THEN Finish([c EXCEPT !.key = FALSE], Resp500NoKey)
    ELSE [c EXCEPT !.pc = "fetch", !.nup = @ + 1]

(* The count query answers (ok: with a count, otherwise with an error and *)
(* no count); an admitted call goes on to read the request's body b and   *)
(* the API key (key: it is configured).                                   *)
GwCount(s, ok, key, b) ==
    /\ gw[s].pc = "count"
    /\   LET count == IF ok THEN CountRows(ledger, gw[s].user, gw[s].windowStart)
                      ELSE NullInt
             c == [gw[s] EXCEPT !.count = count, !.nread = @ + 1,
                                !.storeErr = @ \/ ~ok,
                                !.body = b]
         IN  /\ gw' = [gw EXCEPT ![s] =
                         IF LimitExceeded(CurrentCount(count))
                         THEN [c EXCEPT !.pc = "rejInsert"]
                         ELSE Admitted(c, key)]
             /\ hist' = [hist EXCEPT
                           !.storeFault = @ \/ ~ok,
                           !.invalid = @ \/ (~LimitExceeded(CurrentCount(count))
                                             /\ (~c.body.json \/ QueryMissing(c.body.query)
                                                 \/ ~key))]
    /\ UNCHANGED <<now, ledger, nextId, roles, sw, dash>>

(* The insert of the rate-limited attempt completes (ok: the row is       *)
(* stored; the result is not looked at); the 429 is returned.             *)
GwRejInsert(s, ok) ==
    /\ gw[s].pc = "rejInsert"
    /\   LET p == RejectionPayload(gw[s].user)
         IN  /\ ledger' = IF ok THEN Append(ledger, InsertRow(p, nextId, now)) ELSE ledger
             /\ nextId' = IF ok THEN nextId + 1 ELSE nextId
             /\ gw' = [gw EXCEPT ![s] =
                         Finish([@ EXCEPT !.ins = Append(@, p),
                                          !.rows = IF ok THEN @ \cup {nextId} ELSE @,
                                          !.storeErr = @ \/ ~ok], Resp429)]
             /\ hist' = [hist EXCEPT !.storeFault = @ \/ ~ok]
    /\ UNCHANGED <<now, roles, sw, dash>>

(* The upstream fetch and response.json() complete with r, or throw into  *)
(* the handler's catch.                                                   *)
GwFetch(s, r) ==
    /\ gw[s].pc = "fetch"
    /\   gw' = [gw EXCEPT ![s] =
                  IF r.kind \in {"throw", "badjson"}
                  THEN Finish(@, RespCatch(Thrown(r)))
                  ELSE [@ EXCEPT !.pc = "logInsert", !.up = r.status,
                                 !.uperr = r.error]]
    /\ UNCHANGED <<now, ledger, nextId, roles, sw, dash, hist>>

(* The usage insert completes (ok: the row is stored; the result is not   *)
(* looked at); the upstream answer is relayed.                            *)
GwLogInsert(s, ok) ==
    /\ gw[s].pc = "logInsert"
    /\   LET c == gw[s]
             p == UsagePayload(c.user, c.body.query, c.up, c.uperr)
         IN  /\ ledger' = IF ok THEN Append(ledger, InsertRow(p, nextId, now)) ELSE ledger
             /\ nextId' = IF ok THEN nextId + 1 ELSE nextId
             /\ gw' = [gw EXCEPT ![s] =
                         Finish([@ EXCEPT !.ins = Append(@, p),
                                          !.rows = IF ok THEN @ \cup {nextId} ELSE @,
                                          !.storeErr = @ \/ ~ok],
                                IF ~IsOk(c.up) THEN RespUpstreamError(c.up, c.uperr)
                                ELSE RespData(CurrentCount(c.count)))]
             /\ hist' = [hist EXCEPT !.storeFault = @ \/ ~ok]
    /\ UNCHANGED <<now, roles, sw, dash>>

----------------------------------------------------------------------------
(* The clock *)

TickSteps == {1, RATE_LIMIT_WINDOW_SECONDS, RetentionSeconds}

Tick(d) ==
    /\ hist.ticks < MaxTicks
    /\ now' = now + d
    /\ hist' = [hist EXCEPT !.ticks = @ + 1]
    /\ UNCHANGED <<ledger, nextId, roles, gw, sw, dash>>

----------------------------------------------------------------------------
(* Table user_roles, and the operators who grant and revoke roles *)

(* A faulty variant: a grant once seen by the sweeper is remembered. *)
HasRoleOrSweptBefore(u, r) == <<u, r>> \in roles \/ u \in hist.adminSwept

(* select role from user_roles where user_id = u and role = r *)
HasRole(u, r) == <<u, r>> \in roles

GrantRole(u, r) ==
    /\ <<u, r>> \notin roles
    /\ roles' = roles \cup {<<u, r>>}
    /\ UNCHANGED <<now, ledger, nextId, gw, sw, dash, hist>>

RevokeRole(u, r) ==
    /\ <<u, r>> \in roles
    /\ roles' = roles \ {<<u, r>>}
    /\ UNCHANGED <<now, ledger, nextId, gw, sw, dash, hist>>

----------------------------------------------------------------------------
(* cleanup-firecrawl-logs: the handler, one action per await *)

SweepResponse(status, success, deletedCount, error) ==
    [status |-> status, success |-> success, deletedCount |-> deletedCount,
     error |-> error]
NoSweepResp == SweepResponse(0, FALSE, NullInt, "")

Sweep401 == SweepResponse(401, FALSE, NullInt, "Invalid authentication")
Sweep403 == SweepResponse(403, FALSE, NullInt, "Admin access required")
Sweep500(msg) == SweepResponse(500, FALSE, NullInt, msg)
SweepOk(deletedCount) == SweepResponse(200, TRUE, deletedCount, "")

(* One invocation: where it is, its header, the user its token resolved   *)
(* to, whether it runs as the cron job, its cutoff, its response; and as  *)
(* bookkeeping the clock when the cutoff was taken, whether the admin     *)
(* grant existed when the invocation read user_roles, whether the delete  *)
(* statement was issued, how many rows it removed, whether the store      *)
(* failed it and whether the role query answered with an error.           *)
IdleSweep ==
    [pc |-> "idle", hdr |-> NoHeader, user |-> NoUser, cron |-> FALSE,
     cutoff |-> 0, resp |-> NoSweepResp, at |-> 0,
     grantSeen |-> FALSE, issued |-> FALSE, ndel |-> 0, storeErr |-> FALSE,
     roleErr |-> FALSE]

SweepFinish(c, resp) == [c EXCEPT !.pc = "done", !.resp = resp]

(* A faulty variant: the cutoff is the clock itself, with no retention. *)
ToDeleteNoRetention(c) ==
    [c EXCEPT !.pc = "delete", !.cutoff = now, !.at = now]

(* new Date(Date.now() - 30 * 24 * 60 * 60 * 1000): the delete is awaited *)
ToDelete(c) ==
    [c EXCEPT !.pc = "delete", !.cutoff = now - RetentionSeconds, !.at = now]

(* The request arrives.  With a Bearer header getUser is awaited; with    *)
(* any other header, or none, the invocation goes on as the cron job.     *)
SwStart(h) ==
    /\ sw.pc \in {"idle", "done"}
    /\ hist.sweeps < MaxSweeps
    /\ LET c == [IdleSweep EXCEPT !.hdr = h]
       IN  sw' = IF StartsWithBearer(h) THEN [c EXCEPT !.pc = "getUser"]
                 ELSE ToDelete([c EXCEPT !.cron = TRUE])
    /\ hist' = [hist EXCEPT !.sweeps = @ + 1]
    /\ UNCHANGED <<now, ledger, nextId, roles, gw, dash>>

(* getUser answers; on success the role query is awaited. *)
SwAuth(res) ==
    /\ sw.pc = "getUser"
    /\ res \in GetUser(TokenOf(sw.hdr))
    /\ sw' = IF AuthFailed(res) THEN SweepFinish(sw, Sweep401)
             ELSE [sw EXCEPT !.pc = "role", !.user = res.user]
    /\ UNCHANGED <<now, ledger, nextId, roles, gw, dash, hist>>

(* A faulty variant: a role query that fails lets the caller through. *)
RoleDataFailOpen(ok, u) == ~ok \/ HasRole(u, "admin")

(* const { data: roleData } = await ...eq('role', 'admin').single(): no   *)
(* data when the query answers with an error or no row matched.           *)
RoleData(ok, u) == ok /\ HasRole(u, "admin")

(* The role query answers (ok: without an error); .single() gives no data *)
(* unless exactly one row matched.                                        *)
SwRole(ok) ==
    /\ sw.pc = "role"
    /\ LET roleData == RoleData(ok, sw.user)
           c == [sw EXCEPT !.grantSeen = <<sw.user, "admin">> \in roles,
                           !.roleErr = ~ok]
       IN  sw' = IF ~roleData THEN SweepFinish(c, Sweep403) ELSE ToDelete(c)
    /\ UNCHANGED <<now, ledger, nextId, roles, gw, dash, hist>>

(* A faulty variant: a row exactly at the horizon counts as old. *)
IsOldInclusive(r, cutoff) == r.created_at <= cutoff

(* delete ... where created_at < thirtyDaysAgo, returning the rows *)
IsOld(r, cutoff) == r.created_at < cutoff
Deleted(l, cutoff) == SelectSeq(l, LAMBDA r : IsOld(r, cutoff))

(* A faulty variant: the delete statement removes nothing. *)
RemainingAll(l, cutoff) == l

(* A faulty variant: the delete statement has no filter. *)
RemainingNone(l, cutoff) == <<>>

(* the rows the delete statement leaves in the table *)
Remaining(l, cutoff) == SelectSeq(l, LAMBDA r : ~IsOld(r, cutoff))

(* The delete answers (ok: it was carried out; otherwise an error and no  *)
(* row removed); the count of the returned rows is reported.              *)
SwDelete(ok) ==
    /\ sw.pc = "delete"
    /\ LET data == Deleted(ledger, sw.cutoff)
           c == [sw EXCEPT !.issued = TRUE, !.storeErr = ~ok,
                           !.ndel = IF ok THEN Len(ledger) - Len(Remaining(ledger, sw.cutoff))
                                    ELSE 0]
       IN  /\ ledger' = IF ok THEN Remaining(ledger, sw.cutoff) ELSE ledger
           /\ sw' = IF ~ok THEN SweepFinish(c, Sweep500("delete failed"))
                    ELSE SweepFinish(c, SweepOk(Len(data)))
           /\ hist' = [hist EXCEPT
                         !.storeFault = @ \/ ~ok,
                         !.swept = IF ok THEN [done |-> TRUE, cutoff |-> sw.cutoff,
                                               rows |-> hist.swept.rows + c.ndel]
                                   ELSE @,
                         !.adminSwept = IF ok /\ ~sw.cron THEN @ \cup {sw.user} ELSE @]
    /\ UNCHANGED <<now, nextId, roles, gw, dash>>

----------------------------------------------------------------------------
(* AdminFirecrawlDashboard: the page of one browser session *)

(* Row level security of firecrawl_usage_logs for a signed-in user:       *)
(* "Users can view own usage logs", "Admins can view all usage logs".     *)
MaySelectLog(u, r) == r.user_id = u \/ HasRole(u, "admin")

(* Row level security of user_roles: "Admins can view all roles". *)
MaySelectRole(u) == HasRole(u, "admin")

Reverse(l) == [i \in 1..Len(l) |-> l[Len(l) + 1 - i]]

(* order by created_at desc limit 100; the table's rows are in insertion  *)
(* order, which is ascending in created_at.                               *)
Recent(l) ==
    LET d == Reverse(l)
    IN  IF Len(d) <= QueryLimit THEN d ELSE SubSeq(d, 1, QueryLimit)

(* select * from firecrawl_usage_logs, as user u *)
SelectLogs(u) == Recent(SelectSeq(ledger, LAMBDA r : MaySelectLog(u, r)))

(* The component: the signed-in user, the isAdmin state ("null" while the *)
(* role check is pending), the query's data (hasLogs: it is defined) and  *)
(* whether the last read failed.                                          *)
IdleDash ==
    [pc |-> "idle", viewer |-> NoUser, isAdmin |-> "null", logs |-> <<>>,
     hasLogs |-> FALSE, error |-> FALSE]

(* The page is opened by user u (NoUser: nobody is signed in); the effect *)
(* starts checkAdminRole.                                                 *)
DashMount(u) ==
    /\ dash' = [IdleDash EXCEPT !.viewer = u,
                                !.pc = IF u = NoUser THEN "ready" ELSE "check",
                                !.isAdmin = IF u = NoUser THEN "false" ELSE "null"]
    /\ UNCHANGED <<now, ledger, nextId, roles, gw, sw, hist>>

(* checkAdminRole's query answers (ok: without an error). *)
DashCheck(ok) ==
    /\ dash.pc = "check"
    /\ LET data == MaySelectRole(dash.viewer) /\ HasRole(dash.viewer, "admin")
       IN  dash' = [dash EXCEPT !.pc = "ready",
                                !.isAdmin = IF ok /\ data THEN "true" ELSE "false"]
    /\ UNCHANGED <<now, ledger, nextId, roles, gw, sw, hist>>

(* The logs query runs (on becoming enabled, on Refresh, after a cleanup) *)
(* and answers (ok: with rows; otherwise it throws and the data stays).   *)
DashFetch(ok) ==
    /\ dash.pc = "ready"
    /\ dash.isAdmin = "true"
    /\ dash' = IF ok THEN [dash EXCEPT !.logs = SelectLogs(dash.viewer),
                                       !.hasLogs = TRUE, !.error = FALSE]
               ELSE [dash EXCEPT !.error = TRUE]
    /\ UNCHANGED <<now, ledger, nextId, roles, gw, sw, hist>>

(* The statistics cards and tables are rendered. *)
ShowsFigures(d) == d.isAdmin = "true" /\ d.hasLogs
(* The "Access Denied" card is rendered. *)
ShowsDenied(d) == d.isAdmin = "false"

(* A faulty variant: every function seen gets the count 1. *)
ByFunctionSeen(logs) == [fn \in {logs[i].function_name : i \in 1..Len(logs)} |-> 1]

(* logs.reduce((acc, log) => { acc[log.function_name] =                   *)
(*   (acc[log.function_name] || 0) + 1; return acc }, {})                 *)
(* The rows are taken from left to right; the counting is done by halves  *)
(* of the range, which keeps the evaluation shallow for 100 rows.         *)
RECURSIVE ByFunctionRange(_, _, _)
ByFunctionRange(logs, lo, hi) ==
    IF lo > hi THEN EmptyBag
    ELSE IF lo = hi THEN EmptyBag (+) SetToBag({logs[lo].function_name})
    ELSE ByFunctionRange(logs, lo, (lo + hi) \div 2)
         (+) ByFunctionRange(logs, (lo + hi) \div 2 + 1, hi)

ByFunction(logs) == ByFunctionRange(logs, 1, Len(logs))

(* const stats = logs ? {...} : null, for logs that are defined *)
Stats(logs) ==
    [totalRequests |-> Len(logs),
     successfulRequests |-> Len(SelectSeq(logs, LAMBDA l : l.success)),
     failedRequests |-> Len(SelectSeq(logs, LAMBDA l : ~l.success)),
     byFunction |-> ByFunction(logs),
     uniqueUsers |-> Cardinality({logs[i].user_id : i \in 1..Len(logs)})]

(* userStats' reduce on one row: the user's record is created with zero   *)
(* counts and the row's created_at, then the row is counted.              *)
UserFirst(log) ==
    <<[user_id |-> log.user_id,
       total_requests |-> 0 + 1,
       successful_requests |-> IF log.success THEN 0 + 1 ELSE 0,
       failed_requests |-> IF log.success THEN 0 ELSE 0 + 1,
       last_request |-> log.created_at]>>

(* The accumulator a after the rows that gave the accumulator b: counts   *)
(* add up, last_request moves to a later created_at, and a new user's     *)
(* record goes to the end (an object keeps its keys in insertion order).  *)
RECURSIVE UserMerge(_, _)
UserMerge(a, b) ==
    IF b = <<>> THEN a
    ELSE LET r == Head(b)
             known == \E i \in 1..Len(a) : a[i].user_id = r.user_id
             k == CHOOSE i \in 1..Len(a) : a[i].user_id = r.user_id
             a1 == IF ~known THEN Append(a, r)
                   ELSE [a EXCEPT
                           ![k].total_requests = @ + r.total_requests,
                           ![k].successful_requests = @ + r.successful_requests,
                           ![k].failed_requests = @ + r.failed_requests,
                           ![k].last_request =
                               IF r.last_request > @ THEN r.last_request ELSE @]
         IN  UserMerge(a1, Tail(b))

(* logs.reduce(...) of userStats: the accumulator's values, in the order  *)
(* in which the users' keys were added; evaluated by halves of the range. *)
RECURSIVE UserAccRange(_, _, _)
UserAccRange(logs, lo, hi) ==
    IF lo > hi THEN <<>>
    ELSE IF lo = hi THEN UserFirst(logs[lo])
    ELSE UserMerge(UserAccRange(logs, lo, (lo + hi) \div 2),
                   UserAccRange(logs, (lo + hi) \div 2 + 1, hi))

UserAcc(logs) == UserAccRange(logs, 1, Len(logs))

(* .sort((a, b) => b.total_requests - a.total_requests): a stable sort *)
RECURSIVE SortByTotal(_)
SortByTotal(l) ==
    IF l = <<>> THEN <<>>
    ELSE LET front == SortByTotal(SubSeq(l, 1, Len(l) - 1))
             x == l[Len(l)]
             k == Cardinality({i \in 1..Len(front) :
                                 front[i].total_requests >= x.total_requests})
         IN  SubSeq(front, 1, k) \o <<x>> \o SubSeq(front, k + 1, Len(front))

(* const userStats = logs ? Object.values(...).sort(...) : [] *)
UserStats(logs) == SortByTotal(UserAcc(logs))

(* What the component renders: the page, whether the statistics cards are *)
(* there (stats is not null), and the content of the "Recent Logs" panel. *)
View(d) ==
    IF d.isAdmin = "null" THEN [page |-> "spinner", cards |-> FALSE, panel |-> "none"]
    ELSE IF d.isAdmin = "false"
    THEN [page |-> "Access Denied", cards |-> FALSE, panel |-> "none"]
    ELSE [page |-> "dashboard", cards |-> d.hasLogs,
          panel |-> IF d.hasLogs /\ Len(d.logs) > 0 THEN "rows" ELSE "No logs found"]

----------------------------------------------------------------------------
(* The initial states: the clock at 0, no invocation in progress, and the *)
(* ledger as user u1 leaves it by making k successful searches, each      *)
(* finished before the next, within the current second.                   *)

SeedCounts == {0, RATE_LIMIT_MAX_REQUESTS - 1, RATE_LIMIT_MAX_REQUESTS}
SeedLedger(k) == [i \in 1..k |-> InsertRow(UsagePayload("u1", "quill", 200, NullText), i, 0)]

(* A ledger holding rows of two users and of two ages: u2 searched one    *)
(* second ago, then u1 searched k times within the current second.        *)
MixedCounts == {0, 1, 2, QueryLimit}
MixedLedger(k) ==
    <<InsertRow(UsagePayload("u2", "quill", 200, NullText), 1, -1)>>
    \o [i \in 1..k |-> InsertRow(UsagePayload("u1", "quill", 200, NullText), i + 1, 0)]

RowsOfUser(l, u) == Cardinality({i \in 1..Len(l) : l[i].user_id = u})

Start(l) ==
    /\ now = 0
    /\ ledger = l
    /\ nextId = Len(l) + 1
    /\ hist = [started |-> 0, ticks |-> 0, sweeps |-> 0, overlap |-> FALSE,
               storeFault |-> FALSE, invalid |-> FALSE,
               swept |-> [done |-> FALSE, cutoff |-> 0, rows |-> 0],
               adminSwept |-> {},
               issued |-> [u \in Users \cup {NoUser} |-> RowsOfUser(l, u)]]
    /\ roles = {<<"u2", "moderator">>}
    /\ gw = [s \in Slots |-> IdleCall]
    /\ sw = IdleSweep
    /\ dash = IdleDash

Init == \E k \in SeedCounts : Start(SeedLedger(k))

InitMixed == \E k \in MixedCounts : Start(MixedLedger(k))

(* The ledger rows an invocation has inserted. *)
RowsOf(c) == {ledger[i] : i \in {j \in 1..Len(ledger) : ledger[j].id \in c.rows}}

(* The gateway's steps in slot s, for any request. *)
Gateway(s) ==
    \/ \E h \in Headers : GwStart(s, h)
    \/ \E res \in GetUser(TokenOf(gw[s].hdr)) : GwAuth(s, res)
    \/ \E ok \in BOOLEAN, key \in BOOLEAN, b \in Bodies : GwCount(s, ok, key, b)
    \/ \E ok \in BOOLEAN : GwRejInsert(s, ok)
    \/ \E r \in UpstreamResults : GwFetch(s, r)
    \/ \E ok \in BOOLEAN : GwLogInsert(s, ok)

(* One client at a time: every call is finished before the next starts. *)
NextSerial ==
    \/ Gateway(1)
    \/ \E d \in TickSteps \ {RetentionSeconds} : Tick(d)

Spec == Init /\ [][NextSerial]_vars

(* Well-formed searches by u1, answered by the provider in any of its     *)
(* ways, with a ledger store that may fail.                               *)
Relayed(s) ==
    \/ GwStart(s, <<"Bearer ", "t1">>)
    \/ GwAuth(s, [error |-> FALSE, user |-> "u1"])
    \/ \E ok \in BOOLEAN : GwCount(s, ok, TRUE, [json |-> TRUE, query |-> "quill"])
    \/ \E ok \in BOOLEAN : GwRejInsert(s, ok)
    \/ \E r \in ProviderAnswers : GwFetch(s, r)
    \/ \E ok \in BOOLEAN : GwLogInsert(s, ok)

NextRelay ==
    \/ Relayed(1)
    \/ \E d \in TickSteps \ {RetentionSeconds} : Tick(d)

SpecRelay == Init /\ [][NextRelay]_vars

(* The platform backend and the ledger store answer every request sent to *)
(* them; the fetch to the provider has no timeout and no such guarantee.  *)
GwAnswered(s) ==
    \/ \E res \in GetUser(TokenOf(gw[s].hdr)) : GwAuth(s, res)
    \/ \E ok \in BOOLEAN, key \in BOOLEAN, b \in Bodies : GwCount(s, ok, key, b)
    \/ \E ok \in BOOLEAN : GwRejInsert(s, ok)
    \/ \E ok \in BOOLEAN : GwLogInsert(s, ok)

SpecLive == Init /\ [][NextSerial]_vars /\ WF_vars(GwAnswered(1))

(* The sweeper, called by anyone, while operators grant and revoke u1's   *)
(* admin role and the clock advances.                                     *)
Sweeper ==
    \/ \E h \in Headers : SwStart(h)
    \/ \E res \in GetUser(TokenOf(sw.hdr)) : SwAuth(res)
    \/ \E ok \in BOOLEAN : SwRole(ok)
    \/ \E ok \in BOOLEAN : SwDelete(ok)

NextSweeper ==
    \/ Sweeper
    \/ GrantRole("u1", "admin")
    \/ RevokeRole("u1", "admin")
    \/ \E d \in {1, RetentionSeconds} : Tick(d)

SpecSweeper == InitMixed /\ [][NextSweeper]_vars

(* Well-formed searches by u2 that reach upstream and are logged. *)
Traffic(s) ==
    \/ GwStart(s, <<"Bearer ", "t2">>)
    \/ GwAuth(s, [error |-> FALSE, user |-> "u2"])
    \/ GwCount(s, TRUE, TRUE, [json |-> TRUE, query |-> "quill"])
    \/ \E r \in {x \in UpstreamResults : x.kind = "http"} : GwFetch(s, r)
    \/ GwLogInsert(s, TRUE)

(* The scrape endpoint, whose handler logs like the search endpoint's: a  *)
(* call by u that upstream answered with status is stored.                *)
ScrapeLogged(u, status) ==
    /\ hist.started < MaxCalls
    /\ ledger' = Append(ledger,
                        [InsertRow(UsagePayload(u, NullText, status, NullText), nextId, now)
                           EXCEPT !.function_name = "scrape",
                                  !.request_url = "https://example.com"])
    /\ nextId' = nextId + 1
    /\ hist' = [hist EXCEPT !.started = @ + 1]
    /\ UNCHANGED <<now, roles, gw, sw, dash>>

(* The dashboard, opened by anyone, while operators grant and revoke u1's *)
(* admin role and u2 keeps searching.                                     *)
Dashboard ==
    \/ \E u \in Users \cup {NoUser} : DashMount(u)
    \/ \E ok \in BOOLEAN : DashCheck(ok)
    \/ \E ok \in BOOLEAN : DashFetch(ok)

NextDashboard ==
    \/ Dashboard
    \/ GrantRole("u1", "admin")
    \/ RevokeRole("u1", "admin")
    \/ Traffic(1)
    \/ \E u \in Users, status \in {200, 500} : ScrapeLogged(u, status)

SpecDashboard == InitMixed /\ [][NextDashboard]_vars

(* The whole system: u2 makes searches that upstream answers with 200,   *)
(* the sweeper runs as the cron job, u1 is granted the admin role and     *)
(* reads the dashboard, and the clock advances by the retention time.     *)
NextSystem ==
    \/ GwStart(1, <<"Bearer ", "t2">>)
    \/ GwAuth(1, [error |-> FALSE, user |-> "u2"])
    \/ GwCount(1, TRUE, TRUE, [json |-> TRUE, query |-> "quill"])
    \/ GwFetch(1, [kind |-> "http", status |-> 200, error |-> NullText])
    \/ GwLogInsert(1, TRUE)
    \/ SwStart(NoHeader)
    \/ SwDelete(TRUE)
    \/ GrantRole("u1", "admin")
    \/ DashMount("u1")
    \/ DashCheck(TRUE)
    \/ DashFetch(TRUE)
    \/ Tick(RetentionSeconds)

InitSystem == Start(MixedLedger(1))

SpecSystem == InitSystem /\ [][NextSystem]_vars

(* The users call the scrape endpoint and u1 makes well-formed searches,  *)
(* one call at a time, with a ledger store that answers.                  *)
NextPool ==
    \/ GwStart(1, <<"Bearer ", "t1">>)
    \/ GwAuth(1, [error |-> FALSE, user |-> "u1"])
    \/ GwCount(1, TRUE, TRUE, [json |-> TRUE, query |-> "quill"])
    \/ GwRejInsert(1, TRUE)
    \/ \E r \in {x \in UpstreamResults : x.kind = "http"} : GwFetch(1, r)
    \/ GwLogInsert(1, TRUE)
    \/ \E u \in Users, status \in {200, 500} : ScrapeLogged(u, status)
    \/ \E d \in TickSteps \ {RetentionSeconds} : Tick(d)

SpecPool == Init /\ [][NextPool]_vars

(* A ledger as u1 leaves it by making 20 successful searches 60 seconds  *)
(* ago and 20 more calls one second ago, each of which was rejected.      *)
RejectedLedger ==
    [i \in 1..RATE_LIMIT_MAX_REQUESTS |->
       InsertRow(UsagePayload("u1", "quill", 200, NullText), i, -RATE_LIMIT_WINDOW_SECONDS)]
    \o [i \in 1..RATE_LIMIT_MAX_REQUESTS |->
          InsertRow(RejectionPayload("u1"), RATE_LIMIT_MAX_REQUESTS + i, -1)]

InitSustained == Start(RejectedLedger)

(* u1 keeps making well-formed searches, one call at a time, with a       *)
(* ledger store that may fail.                                            *)
NextSustained ==
    \/ GwStart(1, <<"Bearer ", "t1">>)
    \/ GwAuth(1, [error |-> FALSE, user |-> "u1"])
    \/ \E ok \in BOOLEAN : GwCount(1, ok, TRUE, [json |-> TRUE, query |-> "quill"])
    \/ \E ok \in BOOLEAN : GwRejInsert(1, ok)
    \/ \E r \in {x \in UpstreamResults : x.kind = "http"} : GwFetch(1, r)
    \/ \E ok \in BOOLEAN : GwLogInsert(1, ok)
    \/ \E d \in TickSteps \ {RetentionSeconds} : Tick(d)

SpecSustained == InitSustained /\ [][NextSustained]_vars

(* u1 makes a well-formed search, waits, and makes the next: the clock   *)
(* the handler reads is the clock at which the request arrived, and time  *)
(* passes at any other moment.  The count read may fail.                  *)
NextRetry ==
    \/ GwStart(1, <<"Bearer ", "t1">>)
    \/ GwAuth(1, [error |-> FALSE, user |-> "u1"])
    \/ \E ok \in BOOLEAN : GwCount(1, ok, TRUE, [json |-> TRUE, query |-> "quill"])
    \/ GwRejInsert(1, TRUE)
    \/ \E r \in {x \in UpstreamResults : x.kind = "http"} : GwFetch(1, r)
    \/ GwLogInsert(1, TRUE)
    \/ \E d \in TickSteps \ {RetentionSeconds} : gw[1].pc # "getUser" /\ Tick(d)

SpecRetry == Init /\ [][NextRetry]_vars

(* Well-formed searches by u1 that upstream answers with 200, with a      *)
(* ledger store whose count read may fail, in any slot: calls may         *)
(* overlap.  u1 has made 19 or 20 searches before.                        *)
Concurrent(s) ==
    \/ GwStart(s, <<"Bearer ", "t1">>)
    \/ GwAuth(s, [error |-> FALSE, user |-> "u1"])
    \/ \E ok \in BOOLEAN : GwCount(s, ok, TRUE, [json |-> TRUE, query |-> "quill"])
    \/ GwRejInsert(s, TRUE)
    \/ GwFetch(s, [kind |-> "http", status |-> 200, error |-> NullText])
    \/ GwLogInsert(s, TRUE)

NextConcurrent ==
    \/ \E s \in Slots : Concurrent(s)
    \/ Tick(RATE_LIMIT_WINDOW_SECONDS)

InitConcurrent == \E k \in SeedCounts \ {0} : Start(SeedLedger(k))

SpecConcurrent == InitConcurrent /\ [][NextConcurrent]_vars

----------------------------------------------------------------------------
(* Claims about firecrawl-search, checked under Spec (C13 and C20 under   *)
(* SpecRelay)                                                             *)

(* C1 (as claimed): for one user calling serially with a working ledger   *)
(* store and well-formed requests, every call among the first 20 made in  *)
(* the 60-second window that starts at time 0 passes the limiter, and the *)
(* 21st call in that window is answered 429 and adds one ledger row.      *)
C1_TwentyFirstCallRejected ==
    \A s \in Slots :
      LET c == gw[s]
      IN  (/\ c.pc = "done" /\ c.user # NoUser
           /\ ~hist.overlap /\ ~hist.storeFault /\ ~hist.invalid
           /\ c.windowStart <= 0)
          => /\ (c.idx <= 20 => c.resp.status # 429)
             /\ (c.idx = 21 => c.resp.status = 429 /\ Cardinality(c.rows) = 1)

(* C2 (as claimed): an authenticated call with a non-empty query, made    *)
(* with the API key configured and the ledger store answering, has left   *)
(* exactly one ledger row when it returns: success=true iff upstream was  *)
(* reached and answered 2xx.                                              *)
C2_ExactlyOneEntry ==
    \A s \in Slots :
      LET c == gw[s]
      IN  (/\ c.pc = "done" /\ c.user # NoUser
           /\ c.body.json /\ c.body.query \notin {"", NullText}
           /\ c.key /\ ~c.storeErr)
          => /\ Cardinality(c.rows) = 1
             /\ \A r \in RowsOf(c) :
                  r.success = (c.nup = 1 /\ c.up >= 200 /\ c.up <= 299)

(* C3: a call whose count read is >= 20 makes no upstream request, issues *)
(* one insert {search, success=false, "Rate limit exceeded", status null} *)
(* which becomes one ledger row when the store accepts it, and is         *)
(* answered 429 with Retry-After 60, X-RateLimit-Limit 20, Remaining 0;   *)
(* and no call is rejected with a count below 20.                         *)
C3_RejectionBranch ==
    \A s \in Slots :
      LET c == gw[s]
      IN  /\ (c.nread = 1 /\ c.count >= 20) => c.nup = 0 /\ c.pc \in {"rejInsert", "done"}
          /\ (c.pc = "done" /\ c.nread = 1 /\ c.count >= 20)
             => /\ c.ins = << [user_id |-> c.user, function_name |-> "search",
                               request_query |-> NullText, status_code |-> NullInt,
                               success |-> FALSE,
                               error_message |-> "Rate limit exceeded"] >>
                /\ c.resp.status = 429 /\ c.resp.retryAfter = 60
                /\ c.resp.limit = 20 /\ c.resp.remaining = 0
                /\ (~c.storeErr =>
                      /\ Cardinality(c.rows) = 1
                      /\ \A r \in RowsOf(c) :
                           /\ r.user_id = c.user /\ r.function_name = "search"
                           /\ r.success = FALSE /\ r.status_code = NullInt
                           /\ r.error_message = "Rate limit exceeded")
          /\ (c.pc = "done" /\ c.resp.status = 429) => c.count >= 20

C3_Witness ==
    \E s \in Slots :
      /\ gw[s].pc = "done" /\ gw[s].resp.status = 429 /\ gw[s].count = 20
      /\ \E r \in RowsOf(gw[s]) : r.error_message = "Rate limit exceeded"

(* C4 (as claimed): in every ledger state an authenticated call whose     *)
(* query is empty or missing is answered 400, writes no ledger row and    *)
(* makes no upstream request.                                             *)
C4_EmptyQueryAlways400 ==
    \A s \in Slots :
      LET c == gw[s]
      IN  (/\ c.pc = "done" /\ c.user # NoUser
           /\ c.body.json /\ c.body.query \in {"", NullText})
          => c.resp.status = 400 /\ c.ins = <<>> /\ c.rows = {} /\ c.nup = 0

(* C4 (amended): an authenticated call that the limiter admits (its count *)
(* read is below 20, or failed) and whose query is empty or missing is    *)
(* answered 400, writes no ledger row and makes no upstream request.      *)
C4_EmptyQueryAdmitted400 ==
    \A s \in Slots :
      LET c == gw[s]
      IN  (/\ c.pc = "done" /\ c.user # NoUser /\ c.count < 20
           /\ c.body.json /\ c.body.query \in {"", NullText})
          => c.resp.status = 400 /\ c.ins = <<>> /\ c.rows = {} /\ c.nup = 0

C4_Witness ==
    \E s \in Slots :
      /\ gw[s].pc = "done" /\ gw[s].user # NoUser /\ gw[s].count = 19
      /\ gw[s].body.json /\ gw[s].body.query = "" /\ gw[s].resp.status = 400

(* C5: a call with no Authorization header, a header that is not a Bearer *)
(* credential, or a token the platform backend does not resolve to a user *)
(* is answered 401 having read nothing from the ledger, inserted nothing  *)
(* and requested nothing upstream; nothing of that happens before the     *)
(* token is resolved.                                                     *)
C5_Unauthenticated401 ==
    \A s \in Slots :
      LET c == gw[s]
          noWork == c.nread = 0 /\ c.ins = <<>> /\ c.rows = {} /\ c.nup = 0
      IN  /\ (c.pc = "getUser" => noWork)
          /\ (/\ c.pc = "done"
              /\ \/ c.hdr = NoHeader
                 \/ c.hdr[1] # "Bearer "
                 \/ c.hdr[2] \notin {"t1", "t2"}
                 \/ c.user = NoUser)
             => c.resp.status = 401 /\ noWork

C5_Witness ==
    \E s \in Slots :
      /\ gw[s].pc = "done" /\ gw[s].hdr = <<"Bearer ", "bad">>
      /\ gw[s].resp.status = 401 /\ Len(ledger) = 20

(* C11 (as claimed): a call one of whose ledger inserts was answered with *)
(* an error by the store ends with a 500 storage error, never with the    *)
(* plain 429 nor with the relayed upstream answer.                        *)
C11_InsertErrorFailsCall ==
    \A s \in Slots :
      LET c == gw[s]
      IN  (c.pc = "done" /\ Len(c.ins) > Cardinality(c.rows))
          => /\ c.resp.status = 500
             /\ c.resp # Resp429
             /\ c.resp # RespData(CurrentCount(c.count))
             /\ c.resp # RespUpstreamError(c.up, c.uperr)

(* C12 (as claimed): a call whose upstream request was sent and failed in *)
(* transport, or whose upstream body could not be read, has written (the  *)
(* store answering) one ledger row with status_code null, success=false   *)
(* and an error message, and its response body is not the raw message of  *)
(* the exception.                                                         *)
C12_TransportFailureLogged ==
    \A s \in Slots :
      LET c == gw[s]
      IN  (c.pc = "done" /\ c.nup = 1 /\ c.up = NullInt /\ ~c.storeErr)
          => /\ Cardinality(c.rows) = 1
             /\ \A r \in RowsOf(c) :
                  /\ r.status_code = NullInt /\ r.success = FALSE
                  /\ r.error_message # NullText
             /\ c.resp.body \notin {"error sending request", "Unexpected token in JSON"}

(* C13 (as claimed): a call that upstream answered with HTTP status s has *)
(* issued one insert recording status_code = s, the query, and success =  *)
(* (s is 2xx), and is answered with the same status s: with the upstream  *)
(* body when s is 2xx, otherwise with the error text that the entry holds *)
(* as error_message.                                                      *)
C13_UpstreamStatusRelayed ==
    \A s \in Slots :
      LET c == gw[s]
          ok2xx == c.up >= 200 /\ c.up <= 299
      IN  (c.pc = "done" /\ c.up # NullInt)
          => /\ Len(c.ins) = 1
             /\ c.ins[1].status_code = c.up
             /\ c.ins[1].request_query = c.body.query
             /\ c.ins[1].function_name = "search"
             /\ c.ins[1].user_id = c.user
             /\ c.ins[1].success = ok2xx
             /\ c.resp.status = c.up
             /\ (ok2xx => c.resp.body = "upstream data" /\ c.ins[1].error_message = NullText)
             /\ (~ok2xx => /\ c.resp.body = c.ins[1].error_message
                           /\ c.resp.body # NullText
                           /\ (c.uperr # NullText => c.resp.body = c.uperr))

(* C14: a call whose count read failed is never sent to the rejection     *)
(* branch: it issues no "Rate limit exceeded" insert, is not answered     *)
(* 429, and goes on as an admitted call with count 0: to 500 on a body    *)
(* that is not JSON, to 400 on a missing query, to 500 without the API    *)
(* key, otherwise to one upstream request and, once upstream has          *)
(* answered, one usage insert; a success reports Remaining = 19.          *)
C14_CountErrorAdmits ==
    \A s \in Slots :
      LET c == gw[s]
      IN  (c.nread = 1 /\ c.count = NullInt)
          => /\ c.pc \in {"fetch", "logInsert", "done"}
             /\ \A i \in 1..Len(c.ins) : c.ins[i].error_message # "Rate limit exceeded"
             /\ (c.pc = "done") =>
                   /\ c.resp.status # 429
                   /\ (~c.body.json => c.resp.status = 500 /\ c.nup = 0)
                   /\ (c.body.json /\ c.body.query \in {"", NullText})
                      => (c.resp.status = 400 /\ c.nup = 0)
                   /\ (c.body.json /\ c.body.query \notin {"", NullText} /\ ~c.key)
                      => (c.resp.status = 500 /\ c.nup = 0)
                   /\ (c.body.json /\ c.body.query \notin {"", NullText} /\ c.key)
                      => c.nup = 1
                   /\ (c.up # NullInt)
                      => /\ Len(c.ins) = 1 /\ c.ins[1].status_code = c.up
                         /\ (c.up = 200 => c.resp.status = 200 /\ c.resp.remaining = 19)

C14_Witness ==
    \E s \in Slots :
      /\ gw[s].pc = "done" /\ gw[s].nread = 1 /\ gw[s].count = NullInt
      /\ CountRows(ledger, gw[s].user, gw[s].windowStart) > 20
      /\ gw[s].resp.status = 200 /\ Cardinality(gw[s].rows) = 1

(* C18 (as claimed): the response to a call that reached the limiter and  *)
(* ended as a success, a rate-limit rejection, an invalid-argument error  *)
(* or an upstream error carries X-RateLimit-Limit = 20 and                *)
(* X-RateLimit-Remaining = max(0, 20 - count - 1), count being the value  *)
(* the limiter used for the call.                                         *)
C18_RateLimitHeaders ==
    \A s \in Slots :
      LET c == gw[s]
          left == 20 - (IF c.count = NullInt THEN 0 ELSE c.count) - 1
      IN  (/\ c.pc = "done" /\ c.nread = 1
           /\ (c.resp.status \in {429, 400} \/ c.up # NullInt))
          => /\ c.resp.limit = 20
             /\ c.resp.remaining = (IF left < 0 THEN 0 ELSE left)

(* C20 (as claimed): no text field of any ledger row and no response body *)
(* holds the upstream API credential.                                     *)
C20_CredentialNotExposed ==
    /\ \A i \in 1..Len(ledger) :
         /\ ~ContainsKey(ledger[i].request_query)
         /\ ~ContainsKey(ledger[i].error_message)
         /\ ~ContainsKey(ledger[i].request_url)
    /\ \A s \in Slots : ~ContainsKey(gw[s].resp.body)

----------------------------------------------------------------------------
(* Claims about firecrawl-search's progress, checked under SpecLive *)

(* C19 (as claimed): every call whose upstream request has been sent      *)
(* eventually completes.                                                  *)
C19_AdmittedCallCompletes ==
    \A s \in Slots : (gw[s].pc = "fetch") ~> (gw[s].pc = "done")

----------------------------------------------------------------------------
(* Claims about cleanup-firecrawl-logs, checked under SpecSweeper *)

(* C6 (as claimed): the sweeper goes on as the cron job only when the     *)
(* request has no Authorization header; a request with a malformed or     *)
(* invalid header is rejected and issues no delete.                       *)
C6_CronOnlyWithoutHeader ==
    /\ (sw.cron => sw.hdr = NoHeader)
    /\ (/\ sw.hdr # NoHeader
        /\ (sw.hdr[1] # "Bearer " \/ sw.hdr[2] \notin {"t1", "t2"}))
       => (~sw.issued /\ sw.pc # "delete" /\ (sw.pc = "done" => sw.resp.status = 401))

(* C7: an invocation with a valid bearer token gets to the delete only if *)
(* the (caller, admin) grant existed when this invocation read user_roles;*)
(* when it did not, the invocation ends 403 with no delete issued and no  *)
(* row removed, whatever earlier invocations of the caller did.           *)
C7_AdminGrantRechecked ==
    (sw.user # NoUser /\ sw.pc \in {"delete", "done"} /\ ~sw.grantSeen)
    => /\ sw.pc = "done" /\ sw.resp.status = 403
       /\ ~sw.issued /\ sw.ndel = 0

C7_Witness ==
    /\ sw.pc = "done" /\ sw.resp.status = 403 /\ ~sw.issued
    /\ sw.user \in hist.adminSwept /\ hist.swept.rows > 0

(* C8: a sweep whose delete is carried out removes exactly the rows whose *)
(* created_at is earlier than the invocation's clock minus 30 days, keeps *)
(* every other row as it was, adds none, and reports the number removed.  *)
C8_DeletesExactlyOld ==
    [][(sw.pc = "delete" /\ sw'.pc = "done" /\ ~sw'.storeErr)
       => /\ \A i \in 1..Len(ledger) :
               (ledger[i].created_at < sw.at - 2592000)
               <=> ~(\E j \in 1..Len(ledger') : ledger'[j] = ledger[i])
          /\ \A j \in 1..Len(ledger') : \E i \in 1..Len(ledger) : ledger[i] = ledger'[j]
          /\ sw'.resp.status = 200 /\ sw'.resp.success
          /\ sw'.resp.deletedCount = Len(ledger) - Len(ledger')]_vars

C8_Witness ==
    /\ sw.pc = "done" /\ sw.resp.status = 200 /\ sw.resp.deletedCount = 1
    /\ \E i \in 1..Len(ledger) : ledger[i].created_at = sw.at - 2592000

(* C9: after a sweep that was carried out, a later sweep that is carried  *)
(* out while no row has a created_at between the two cutoffs removes      *)
(* nothing and answers success with deletedCount 0.                       *)
C9_SecondSweepDeletesNothing ==
    [][(/\ sw.pc = "delete" /\ sw'.pc = "done" /\ ~sw'.storeErr
        /\ hist.swept.done
        /\ ~(\E i \in 1..Len(ledger) :
               /\ ledger[i].created_at >= hist.swept.cutoff
               /\ ledger[i].created_at < sw.at - 2592000))
       => /\ ledger' = ledger
          /\ sw'.resp.status = 200 /\ sw'.resp.success
          /\ sw'.resp.deletedCount = 0]_vars

C9_Witness ==
    /\ sw.pc = "done" /\ sw.resp.status = 200 /\ sw.resp.deletedCount = 0
    /\ hist.sweeps = 2 /\ hist.swept.rows > 0 /\ Len(ledger) > 0

----------------------------------------------------------------------------
(* Claims about AdminFirecrawlDashboard, checked under SpecDashboard *)

(* C10 (as claimed): at every moment at which the page shows figures      *)
(* derived from the ledger, its user holds the admin grant.               *)
C10_NoFiguresWithoutGrant ==
    ShowsFigures(dash) => <<dash.viewer, "admin">> \in roles

(* C15 (as claimed): when the last read of the ledger behind the page has *)
(* failed, the page shows an error, not the "No logs found" panel and not *)
(* the page without statistics that a read with no result leaves.         *)
C15_ReadErrorShown ==
    (dash.isAdmin = "true" /\ dash.error)
    => /\ View(dash).panel \notin {"No logs found", "rows"}
       /\ View(dash) # View([dash EXCEPT !.error = FALSE])

(* C16: for the rows the page holds, every row's function_name is a       *)
(* bucket of the histogram, every bucket counts exactly the rows of its   *)
(* name, the buckets' counts sum to the total, and successful + failed =  *)
(* total.                                                                 *)
C16_HistogramPartitions ==
    dash.hasLogs
    => LET logs == dash.logs
           st == Stats(logs)
       IN  /\ st.totalRequests = Len(logs)
           /\ \A i \in 1..Len(logs) : logs[i].function_name \in DOMAIN st.byFunction
           /\ \A fn \in DOMAIN st.byFunction :
                st.byFunction[fn] =
                  Cardinality({i \in 1..Len(logs) : logs[i].function_name = fn})
           /\ BagCardinality(st.byFunction) = st.totalRequests
           /\ st.successfulRequests + st.failedRequests = st.totalRequests

C16_Witness ==
    /\ dash.hasLogs /\ Len(dash.logs) >= 3
    /\ Stats(dash.logs).byFunction = [fn \in {"search", "scrape"} |->
                                        IF fn = "search" THEN Len(dash.logs) - 1 ELSE 1]

(* C17 (as claimed): a read of the page takes the 100 most recent rows of *)
(* the ledger by created_at (all of them when there are fewer), and the   *)
(* per-user breakdown of those rows has one record per distinct user_id,  *)
(* as many records as the unique-user count, total = successful + failed  *)
(* in each record, totals that sum to the overall total, and as each      *)
(* record's last request the greatest created_at among that user's rows.  *)
C17_UserBreakdown ==
    [][(/\ dash.pc = "ready" /\ dash' # dash
        /\ dash'.viewer = dash.viewer /\ dash'.hasLogs /\ ~dash'.error)
       => LET logs == dash'.logs
              us == UserStats(logs)
              rowsOf(u) == {i \in 1..Len(logs) : logs[i].user_id = u}
              users == {logs[i].user_id : i \in 1..Len(logs)}
          IN  /\ Len(logs) = (IF Len(ledger) < 100 THEN Len(ledger) ELSE 100)
              /\ \A i \in 1..Len(logs) : \E j \in 1..Len(ledger) : ledger[j] = logs[i]
              /\ \A j \in 1..Len(ledger) :
                   (\A i \in 1..Len(logs) : logs[i] # ledger[j])
                   => \A i \in 1..Len(logs) : ledger[j].created_at <= logs[i].created_at
              /\ Len(us) = Cardinality(users)
              /\ Len(us) = Stats(logs).uniqueUsers
              /\ {us[a].user_id : a \in 1..Len(us)} = users
              /\ \A a \in 1..Len(us) :
                   /\ us[a].total_requests
                        = us[a].successful_requests + us[a].failed_requests
                   /\ us[a].total_requests = Cardinality(rowsOf(us[a].user_id))
                   /\ \A i \in rowsOf(us[a].user_id) :
                        logs[i].created_at <= us[a].last_request
                   /\ \E i \in rowsOf(us[a].user_id) :
                        logs[i].created_at = us[a].last_request
              /\ BagCardinality([u \in users |->
                     us[CHOOSE a \in 1..Len(us) : us[a].user_id = u].total_requests])
                 = Stats(logs).totalRequests]_vars

----------------------------------------------------------------------------
(* Claims about the limiter's decision, checked under SpecRelay *)

(* The user's rows stamped at or after t, whatever they record. *)
RowsSince(u, t) ==
    {i \in 1..Len(ledger) : ledger[i].user_id = u /\ ledger[i].created_at >= t}

(* C21 (as claimed): the window starts 60 seconds before the clock the    *)
(* call read, and the call is rejected if and only if the ledger holds 20 *)
(* or more rows of its user stamped at or after the window's start.       *)
C21_RejectIffTwentyRows ==
    [][\A s \in Slots :
         /\ (gw[s].pc = "getUser" /\ gw'[s].pc = "count")
            => gw'[s].windowStart = now - 60
         /\ (gw[s].pc = "count" /\ gw'[s].pc # "count")
            => ((gw'[s].pc = "rejInsert")
                <=> Cardinality(RowsSince(gw[s].user, gw[s].windowStart)) >= 20)]_vars

(* C21 (amended): the window starts 60 seconds before the clock the call  *)
(* read; a call whose count read succeeded has read the number of ledger  *)
(* rows of its user stamped at or after the window's start, successful or *)
(* not, and is rejected if and only if that number is 20 or more; a call  *)
(* whose count read failed is admitted whatever the ledger holds.         *)
C21_RejectIffTwentyRowsRead ==
    [][\A s \in Slots :
         /\ (gw[s].pc = "getUser" /\ gw'[s].pc = "count")
            => gw'[s].windowStart = now - 60
         /\ (gw[s].pc = "count" /\ gw'[s].pc # "count")
            => IF gw'[s].count = NullInt THEN gw'[s].pc # "rejInsert"
               ELSE /\ gw'[s].count = Cardinality(RowsSince(gw[s].user, gw[s].windowStart))
                    /\ (gw'[s].pc = "rejInsert") <=> (gw'[s].count >= 20)]_vars

(* A call rejected on exactly 20 rows, one of them the row of a failed    *)
(* forwarded call stamped exactly at the window's start.                  *)
C21_Witness ==
    \E s \in Slots :
      /\ gw[s].pc = "done" /\ gw[s].resp.status = 429 /\ gw[s].count = 20
      /\ \E i \in RowsSince(gw[s].user, gw[s].windowStart) :
           /\ ledger[i].created_at = gw[s].windowStart
           /\ ~ledger[i].success /\ ledger[i].status_code = 500

----------------------------------------------------------------------------
(* Claims about overlapping calls, checked under SpecConcurrent *)

(* C22: the handler takes no lock and keeps no counter of its own: a call *)
(* whose count read succeeds while another call of its user is admitted   *)
(* and not yet logged reads the ledger's rows only, and is admitted when  *)
(* that number is below 20; and once two calls of one user that both read *)
(* 19 have both been forwarded and logged, the window of the earlier of   *)
(* them holds more than 20 rows of that user.                             *)
C22_SoftLimit ==
    [][\A s \in Slots :
         /\ (/\ gw[s].pc = "count" /\ gw'[s].pc # "count" /\ gw'[s].count # NullInt
             /\ \E t \in Slots \ {s} :
                  gw[t].user = gw[s].user /\ gw[t].pc \in {"fetch", "logInsert"})
            => /\ gw'[s].count = Cardinality(RowsSince(gw[s].user, gw[s].windowStart))
               /\ (gw'[s].count < 20 => gw'[s].pc = "fetch")
         /\ \A t \in Slots \ {s} :
              (/\ gw'[s].pc = "done" /\ gw'[t].pc = "done"
               /\ gw'[s].user = gw'[t].user
               /\ gw'[s].count = 19 /\ gw'[t].count = 19
               /\ gw'[s].nup = 1 /\ gw'[t].nup = 1
               /\ gw'[s].windowStart <= gw'[t].windowStart)
              => CountRows(ledger', gw'[s].user, gw'[t].windowStart) > 20]_vars

(* Two overlapping calls of one user that both read 19, were both         *)
(* forwarded and answered 200, and 21 rows of the user in one window.     *)
C22_Witness ==
    /\ hist.overlap
    /\ \A s \in Slots :
         /\ gw[s].pc = "done" /\ gw[s].user = "u1" /\ gw[s].count = 19
         /\ gw[s].nup = 1 /\ gw[s].resp.status = 200
    /\ Cardinality(RowsSince("u1", gw[1].windowStart)) = 21
    /\ gw[1].windowStart = gw[2].windowStart

(* The user's rows written by forwarded calls and stamped within the 60  *)
(* seconds that start at t.                                               *)
ForwardedWithin(u, t) ==
    {i \in 1..Len(ledger) :
       /\ ledger[i].user_id = u /\ ledger[i].status_code # NullInt
       /\ ledger[i].created_at >= t
       /\ ledger[i].created_at <= t + RATE_LIMIT_WINDOW_SECONDS}

(* The greatest number of the user's calls that were in flight together. *)
MostInFlight == IF hist.overlap THEN 2 ELSE 1

(* C29 (as claimed): with at most k calls of a user ever in flight        *)
(* together, every 60-second window holds at most 19 + k rows of the      *)
(* user's forwarded calls; 20 when calls never overlap.                   *)
C29_OvershootBounded ==
    \A u \in Users : \A i \in 1..Len(ledger) :
      Cardinality(ForwardedWithin(u, ledger[i].created_at)) <= 19 + MostInFlight

(* C29 (amended): the same bound, as long as no count read has failed.    *)
C29_OvershootBoundedRead ==
    ~hist.storeFault =>
      \A u \in Users : \A i \in 1..Len(ledger) :
        Cardinality(ForwardedWithin(u, ledger[i].created_at)) <= 19 + MostInFlight

(* The bound is met: every count read having succeeded, two calls that   *)
(* overlapped have both been forwarded and logged, and one window holds   *)
(* 21 rows of forwarded calls.                                            *)
C29_Witness ==
    /\ ~hist.storeFault /\ hist.overlap
    /\ \A s \in Slots : gw[s].pc = "done" /\ Cardinality(gw[s].rows) = 1
    /\ \E i \in 1..Len(ledger) :
         Cardinality(ForwardedWithin("u1", ledger[i].created_at)) = 19 + MostInFlight

----------------------------------------------------------------------------
(* Claims about the ledger as a whole, checked under SpecSystem *)

(* The step in which the sweeper's delete statement is answered. *)
SweepStep == sw.pc = "delete" /\ sw'.pc = "done"

(* C23: the step in which a sweep's delete is carried out leaves, for     *)
(* every user, the number of rows stamped within the last 60 seconds as   *)
(* it was, and removes no such row, also while a gateway call is in       *)
(* flight.                                                                *)
C23_SweepKeepsWindows ==
    [][SweepStep =>
         \A u \in Users :
           /\ CountRows(ledger', u, now - RATE_LIMIT_WINDOW_SECONDS)
                = CountRows(ledger, u, now - RATE_LIMIT_WINDOW_SECONDS)
           /\ \A i \in 1..Len(ledger) :
                InWindow(ledger[i], u, now - RATE_LIMIT_WINDOW_SECONDS)
                => \E j \in 1..Len(ledger') : ledger'[j] = ledger[i]]_vars

(* A sweep has removed rows while a gateway call was in flight, and the   *)
(* caller's window still holds the row of an earlier call.                *)
C23_Witness ==
    /\ sw.pc = "done" /\ sw.ndel >= 1
    /\ \E s \in Slots :
         /\ InFlight(gw[s])
         /\ CountRows(ledger, "u2", now - RATE_LIMIT_WINDOW_SECONDS) >= 1

(* C24: in every step a row of the ledger either stays as it is, with     *)
(* every field, or is removed by the sweeper's delete, being older than   *)
(* that sweep's clock minus 30 days; a row that appears gets the clock as *)
(* its created_at and a new id; and no insert of the gateway names        *)
(* created_at.                                                            *)
C24_AppendOnly ==
    [][/\ \A i \in 1..Len(ledger) :
            \/ \E j \in 1..Len(ledger') : ledger'[j] = ledger[i]
            \/ /\ SweepStep
               /\ ledger[i].created_at < sw.at - RetentionSeconds
               /\ \A j \in 1..Len(ledger') : ledger'[j].id # ledger[i].id
       /\ \A j \in 1..Len(ledger') :
            \/ \E i \in 1..Len(ledger) : ledger[i] = ledger'[j]
            \/ /\ ledger'[j].created_at = now
               /\ \A i \in 1..Len(ledger) : ledger[i].id # ledger'[j].id
               /\ ~SweepStep
       /\ \A s \in Slots : \A k \in 1..Len(gw'[s].ins) :
            "created_at" \notin DOMAIN gw'[s].ins[k]]_vars

(* Rows were inserted by a gateway call and removed by a sweep, and the   *)
(* dashboard has read the ledger.                                         *)
C24_Witness ==
    /\ hist.swept.done /\ hist.swept.rows >= 1
    /\ \E s \in Slots : gw[s].pc = "done" /\ Cardinality(RowsOf(gw[s])) = 1
    /\ dash.hasLogs

----------------------------------------------------------------------------
(* Claims about the ledger's rows, checked under SpecRelay *)

(* C25 (as claimed): in every row success implies a 2xx status_code, a    *)
(* null status_code implies success = false, and error_message "Rate      *)
(* limit exceeded" implies a null status_code and success = false.        *)
C25_RowInvariants ==
    \A i \in 1..Len(ledger) :
      LET r == ledger[i]
      IN  /\ r.success => r.status_code # NullInt /\ r.status_code \in 200..299
          /\ r.status_code = NullInt => ~r.success
          /\ r.error_message = "Rate limit exceeded"
             => r.status_code = NullInt /\ ~r.success

(* C25 (amended): in every row success implies a 2xx status_code, a null  *)
(* status_code implies success = false, and error_message "Rate limit     *)
(* exceeded" implies success = false; such a row has a null status_code   *)
(* when it is the limiter's (it has no query), and otherwise records a    *)
(* forwarded call with the status upstream answered, which is not 2xx.    *)
C25_RowInvariantsOwn ==
    \A i \in 1..Len(ledger) :
      LET r == ledger[i]
      IN  /\ r.success => r.status_code # NullInt /\ r.status_code \in 200..299
          /\ r.status_code = NullInt => ~r.success
          /\ r.error_message = "Rate limit exceeded"
             => /\ ~r.success
                /\ r.request_query = NullText => r.status_code = NullInt
                /\ r.request_query # NullText
                   => r.status_code # NullInt /\ r.status_code \notin 200..299

(* The ledger holds a successful row, the limiter's row of a rejected     *)
(* call, and the row of a forwarded call that upstream rate-limited.      *)
C25_Witness ==
    /\ \E i \in 1..Len(ledger) : ledger[i].success /\ ledger[i].status_code = 200
    /\ \E i \in 1..Len(ledger) :
         /\ ledger[i].error_message = "Rate limit exceeded"
         /\ ledger[i].status_code = NullInt
    /\ \E i \in 1..Len(ledger) :
         /\ ledger[i].error_message = "Rate limit exceeded"
         /\ ledger[i].status_code = 429

----------------------------------------------------------------------------
(* Claims about the quota as one pool, checked under SpecPool *)

(* The user's rows of function fn stamped at or after t. *)
RowsOfFunctionSince(u, fn, t) ==
    {i \in RowsSince(u, t) : ledger[i].function_name = fn}

(* C26: the count a search call reads is the sum of its user's rows of    *)
(* the functions search, scrape, map and crawl in the window, rows of     *)
(* other users not included; the call is rejected exactly when that sum   *)
(* is 20 or more.                                                         *)
C26_OnePoolPerUser ==
    [][\A s \in Slots :
         (gw[s].pc = "count" /\ gw'[s].pc # "count")
         => LET u == gw[s].user
                t == gw[s].windowStart
                pool == Cardinality(RowsOfFunctionSince(u, "search", t))
                        + Cardinality(RowsOfFunctionSince(u, "scrape", t))
                        + Cardinality(RowsOfFunctionSince(u, "map", t))
                        + Cardinality(RowsOfFunctionSince(u, "crawl", t))
            IN  /\ gw'[s].count = pool
                /\ (gw'[s].pc = "rejInsert") <=> (pool >= 20)]_vars

(* A search of u1 rejected on count 20: the rows of 19 searches and of    *)
(* one scrape of u1.                                                      *)
C26_Witness ==
    \E s \in Slots :
      /\ gw[s].pc = "done" /\ gw[s].resp.status = 429 /\ gw[s].count = 20
      /\ Cardinality(RowsOfFunctionSince("u1", "scrape", gw[s].windowStart)) = 1
      /\ Cardinality({i \in RowsOfFunctionSince("u1", "search", gw[s].windowStart) :
                        ledger[i].status_code # NullInt}) = 19

----------------------------------------------------------------------------
(* Claims about a caller who keeps calling, checked under SpecSustained *)

(* The user's rows of rate-limited attempts stamped at or after t. *)
RejectionsSince(u, t) ==
    {i \in RowsSince(u, t) : ledger[i].status_code = NullInt}

(* C27 (as claimed): a call in whose window the user has 20 or more rows  *)
(* of rate-limited attempts is rejected, also when no row of a forwarded  *)
(* call is left in the window; and the rejected call leaves a row of its  *)
(* own, stamped with the clock, that the next count includes.             *)
C27_RejectionsCounted ==
    [][\A s \in Slots :
         /\ (/\ gw[s].pc = "count" /\ gw'[s].pc # "count"
             /\ Cardinality(RejectionsSince(gw[s].user, gw[s].windowStart)) >= 20)
            => gw'[s].pc = "rejInsert"
         /\ (gw[s].pc = "rejInsert" /\ gw'[s].pc = "done")
            => /\ Len(ledger') = Len(ledger) + 1
               /\ InWindow(ledger'[Len(ledger')], gw[s].user, now - 60)
               /\ ledger'[Len(ledger')].status_code = NullInt]_vars

(* C27 (amended): the same, for a call whose count read succeeded and a   *)
(* rejection whose insert the store accepted.                             *)
C27_RejectionsCountedStored ==
    [][\A s \in Slots :
         /\ (/\ gw[s].pc = "count" /\ gw'[s].pc # "count" /\ gw'[s].count # NullInt
             /\ Cardinality(RejectionsSince(gw[s].user, gw[s].windowStart)) >= 20)
            => gw'[s].pc = "rejInsert"
         /\ (gw[s].pc = "rejInsert" /\ gw'[s].pc = "done" /\ ~gw'[s].storeErr)
            => /\ Len(ledger') = Len(ledger) + 1
               /\ InWindow(ledger'[Len(ledger')], gw[s].user, now - 60)
               /\ ledger'[Len(ledger')].status_code = NullInt]_vars

(* A call rejected on the rows of rate-limited attempts alone: every row  *)
(* of a forwarded call has aged out of its window.                        *)
C27_Witness ==
    \E s \in Slots :
      /\ gw[s].pc = "done" /\ gw[s].resp.status = 429 /\ gw[s].count >= 20
      /\ Cardinality(gw[s].rows) = 1
      /\ \A i \in RowsSince(gw[s].user, gw[s].windowStart) :
           ledger[i].status_code = NullInt

----------------------------------------------------------------------------
(* Claims about the Retry-After hint, checked under SpecRetry *)

(* The indices of the user's rows, and the newest of them. *)
RowsFor(u) == {i \in 1..Len(ledger) : ledger[i].user_id = u}
NewestRow(u) == ledger[CHOOSE i \in RowsFor(u) : \A j \in RowsFor(u) : j <= i]

(* The call in slot s is its user's first since the user was answered    *)
(* 429: the user's newest row is that rejection's, and every call of the  *)
(* user that got to the limiter has left a row.                           *)
FirstSinceRejected(s) ==
    /\ RowsFor(gw[s].user) # {}
    /\ gw[s].idx = Cardinality(RowsFor(gw[s].user)) + 1
    /\ NewestRow(gw[s].user).status_code = NullInt

----------------------------------------------------------------------------
(* Claims about the sweeper's role check, checked under SpecSweeper *)

(* C30: an invocation with a valid bearer token whose role query answered *)
(* with an error, or with no admin row of the caller, has ended with 403, *)
(* has issued no delete and has removed nothing; and a delete issued for  *)
(* a bearer caller follows a role query that answered without error and   *)
(* with the caller's admin row.                                           *)
C30_SweeperFailsClosed ==
    /\ (/\ sw.user # NoUser /\ sw.pc \in {"delete", "done"}
        /\ (sw.roleErr \/ ~sw.grantSeen))
       => /\ sw.pc = "done" /\ sw.resp = Sweep403
          /\ ~sw.issued /\ sw.ndel = 0
    /\ (sw.issued /\ ~sw.cron)
       => sw.user # NoUser /\ ~sw.roleErr /\ sw.grantSeen

(* The role query of a caller who holds the admin grant answered with an  *)
(* error, and the invocation ended with 403.                              *)
C30_Witness ==
    /\ sw.pc = "done" /\ sw.user = "u1" /\ sw.roleErr /\ sw.grantSeen
    /\ sw.resp.status = 403 /\ ~sw.issued

====
